---- MODULE Spec2Model ----
(***************************************************************************)
(* A model of the tsm finite-state-machine library: the builder of         *)
(* src/components.ts, the helpers of src/utility.ts and the interpreter    *)
(* (service) of src/interpret.ts.                                          *)
(*                                                                         *)
(* JavaScript objects are records carrying their prototype in the field    *)
(* proto; arrays are sequences; a Map is a sequence of [key, value]        *)
(* entries in insertion order.  User callbacks (reducer, action, guard and *)
(* invoke functions) are named by strings and interpreted by ReducerFn,    *)
(* GuardFn and Invokable.  Context values are numbers; the JavaScript      *)
(* value undefined is the distinguished value `undefined`.                 *)
(***************************************************************************)
EXTENDS Integers, Sequences, FiniteSets, TLC

(***************************************************************************)
(* Bounds of the model.                                                    *)
(***************************************************************************)
MaxSnapshots == 4      \* machine objects ever allocated by one service
MaxSubscribers == 2    \* length of the subscriber list

\* The machine objects a service of the counter machine allocates before
\* the counter specification stops: the initial one and six more
MaxCounterSnapshots == 7

\* The longest argument list passed to machine
MaxArgs == 3

(***************************************************************************)
(* src/utility.ts and the prototypes of src/components.ts                  *)
(***************************************************************************)
undefined == -1

machineProto == "machineProto"
stateProto == "stateProto"
contextProto == "contextProto"
invokeProto == "invokeProto"
transitionProto == "transitionProto"
immediateProto == "immediateProto"
reducerProto == "reducerProto"
actionProto == "actionProto"
guardProto == "guardProto"

\* Prototypes that are all plain objects: invokeProto and actionProto are
\* not created from stateProto and reducerProto
ProtoChainFlat(proto) == {proto}

\* The prototype chain of an object created with the given prototype:
\* invokeProto = Object.create(stateProto), actionProto =
\* Object.create(reducerProto), every other prototype is a plain object.
ProtoChain(proto) ==
    IF proto = invokeProto THEN {invokeProto, stateProto}
    ELSE IF proto = actionProto THEN {actionProto, reducerProto}
    ELSE {proto}

isType(type, object) == type \in ProtoChain(object.proto)

isTypeP(type, object) == isType(type, object)

\* Object.freeze(Object.assign(Object.create(proto), object))
immutable(proto, object) ==
    [f \in DOMAIN object \cup {"proto"} |->
        IF f = "proto" THEN proto ELSE object[f]]

(***************************************************************************)
(* Array and Map helpers of the JavaScript runtime                         *)
(***************************************************************************)
\* Array.prototype.filter with a type predicate
filter(args, type) == SelectSeq(args, LAMBDA a : isTypeP(type, a))

\* Array.prototype.find with a type predicate: the index of the first
\* element of the type, 0 when there is none (undefined)
findIndex(args, type) ==
    IF \E i \in 1..Len(args) : isTypeP(type, args[i])
    THEN CHOOSE i \in 1..Len(args) :
            /\ isTypeP(type, args[i])
            /\ \A j \in 1..(i - 1) : ~isTypeP(type, args[j])
    ELSE 0

\* Map.prototype.has / get / set / keys
MapHas(m, k) == \E i \in 1..Len(m) : m[i].key = k

MapGet(m, k) == m[CHOOSE i \in 1..Len(m) : m[i].key = k].value

MapSet(m, k, v) ==
    IF MapHas(m, k)
    THEN [i \in 1..Len(m) |->
            IF m[i].key = k THEN [key |-> k, value |-> v] ELSE m[i]]
    ELSE Append(m, [key |-> k, value |-> v])

MapKeys(m) == [i \in 1..Len(m) |-> m[i].key]

(***************************************************************************)
(* The builder: components() of src/components.ts                          *)
(***************************************************************************)
reducer(fn) == immutable(reducerProto, [fn |-> fn])

action(fn) == immutable(actionProto, [fn |-> fn])

guard(fn) == immutable(guardProto, [fn |-> fn])

context(value) == immutable(contextProto, [value |-> value])

transition(name, targetState, args) ==
    immutable(transitionProto,
        [name |-> name, state |-> targetState,
         reducers |-> filter(args, reducerProto),
         guards |-> filter(args, guardProto)])

immediate(targetState, args) ==
    immutable(immediateProto,
        [state |-> targetState,
         reducers |-> filter(args, reducerProto),
         guards |-> filter(args, guardProto)])

state(name, args) ==
    immutable(stateProto,
        [name |-> name,
         transitions |-> filter(args, transitionProto),
         immediates |-> filter(args, immediateProto)])

invoke(name, fn, args) ==
    immutable(invokeProto,
        [name |-> name,
         transitions |-> filter(args, transitionProto),
         fn |-> fn])

\* args.reduce((s, arg) => { if (isType(stateProto, arg)) s.set(arg.name, arg);
\* return s }, new Map())
RECURSIVE statesOf(_, _)
statesOf(args, s) ==
    IF args = <<>> THEN s
    ELSE statesOf(Tail(args),
            IF isType(stateProto, Head(args))
            THEN MapSet(s, Head(args).name, Head(args))
            ELSE s)

\* A machine that takes its first argument as the initial state and fails
\* only when it has no argument at all
machineOfFirstArgument(args) ==
    IF args = <<>>
    THEN [thrown |-> "machine needs at least one state"]
    ELSE immutable(machineProto,
            [states |-> statesOf(args, <<>>),
             context |-> IF findIndex(args, contextProto) = 0 THEN <<>>
                         ELSE <<args[findIndex(args, contextProto)]>>,
             state |-> args[1]])

\* machine(...args).  The optional field context is a sequence of at most
\* one Context object, empty when no argument is a Context.  A failed
\* invariant is the record [thrown |-> message].
machine(args) ==
    IF findIndex(args, stateProto) = 0
    THEN [thrown |-> "machine needs at least one state"]
    ELSE immutable(machineProto,
            [states |-> statesOf(args, <<>>),
             context |-> IF findIndex(args, contextProto) = 0 THEN <<>>
                         ELSE <<args[findIndex(args, contextProto)]>>,
             state |-> args[findIndex(args, stateProto)]])

(***************************************************************************)
(* src/validation.ts: the checks machine runs on the machine it built when *)
(* __DEV__ is set.  warning(condition, message) prints the message when    *)
(* the condition is false.                                                 *)
(***************************************************************************)
\* The loop of statesAreValid over machine.states.keys(): false at the
\* first name that is already in existingNames
RECURSIVE includesTwice(_, _)
includesTwice(names, existingNames) ==
    IF names = <<>> THEN FALSE
    ELSE IF Head(names) \in existingNames THEN TRUE
    ELSE includesTwice(Tail(names), existingNames \cup {Head(names)})

\* statesAreValid(machine)
statesAreValid(m) == ~includesTwice(MapKeys(m.states), {})

\* contextIsValid(machine)
contextIsValid(m) ==
    LET needsContext ==
            \E s \in 1..Len(m.states) :
                \E t \in 1..Len(m.states[s].value.transitions) :
                    Len(m.states[s].value.transitions[t].reducers) > 0
    IN  ~(needsContext /\ m.context = <<>>)

\* machineIsValid(machine): the messages it prints, in order
machineIsValid(m) ==
    (IF statesAreValid(m) THEN <<>> ELSE <<"machine has duplicate states">>)
    \o (IF contextIsValid(m) THEN <<>> ELSE <<"machine needs context">>)

(***************************************************************************)
(* User callbacks.  A callback is named by a string; these operators give  *)
(* the functions the names stand for (test/integration.test.ts 23-48 for   *)
(* the counter machine).                                                   *)
(***************************************************************************)
\* ReducerFn: (context, event) => context
ReducerFn(fn, ctx, event) ==
    CASE fn = "inc" -> ctx + 1          \* ctx => ctx + 1
      [] fn = "dec" -> ctx - 1          \* ctx => ctx - 1
      [] fn = "zero" -> 0               \* () => 0
      [] fn = "plus2" -> ctx + 2        \* ctx => ctx + 2
      [] fn = "payload" -> event.payload \* (_, evt) => evt.payload

\* GuardFn: context => boolean
GuardFn(fn, ctx) ==
    CASE fn = "eq5" -> ctx = 5          \* ctx => ctx === 5
      [] fn = "gt0" -> ctx > 0          \* ctx => ctx > 0
      [] fn = "eq1" -> ctx = 1          \* ctx => ctx === 1
      [] fn = "eq0" -> ctx = 0          \* ctx => ctx === 0
      [] fn = "lt2" -> ctx # undefined /\ ctx < 2  \* ctx => ctx < 2

\* Invokable: context => Promise<event>; the events the promise of an
\* invoke function may resolve with.
Invokable(fn, ctx) ==
    CASE fn = "fetch" -> {[type |-> "done", payload |-> ctx]}

(***************************************************************************)
(* Machine configurations                                                  *)
(***************************************************************************)
\* The counter machine of test/integration.test.ts, lines 23-55
CounterMachine ==
    LET inc == transition("inc", "counting", <<reducer("inc")>>)
        maxedOut == transition("inc", "maxedOut", <<guard("eq5")>>)
        dec == transition("dec", "counting", <<reducer("dec"), guard("gt0")>>)
        reset == transition("reset", "idle", <<reducer("zero")>>)
        restart == immediate("idle", <<reducer("zero"), action("actionMock")>>)
    IN machine(<<state("idle", <<inc>>),
                 state("counting", <<maxedOut, inc, dec, reset>>),
                 state("maxedOut", <<restart>>),
                 context(0)>>)

\* A machine whose initial state is an Invoke, with the Context passed
\* first (as in the search machine of test/integration.test.ts 138-146);
\* the Invoke can be left and re-entered before its call resolves.
FetchMachine ==
    machine(<<context(0),
              invoke("loading", "fetch",
                  <<transition("done", "ready", <<reducer("payload")>>),
                    transition("cancel", "idle", <<>>),
                    transition("retry", "loading",
                        <<reducer("inc"), guard("lt2")>>)>>),
              state("idle", <<transition("load", "loading", <<>>)>>),
              state("ready",
                  <<transition("reset", "idle", <<reducer("zero")>>)>>)>>)

\* A machine with guarded alternatives for one event, chains of
\* immediates, actions between reducers, an immediate into an Invoke, a
\* cycle of immediates and targets that are not states of the machine.
\* Its initial state has an immediate that is eligible for the initial
\* context.
ChainMachine ==
    machine(<<
        state("a",
            <<immediate("b", <<guard("eq0")>>),
              transition("go", "b", <<guard("gt0"), action("log")>>),
              transition("go", "c", <<reducer("inc")>>),
              transition("go", "d", <<reducer("plus2")>>),
              transition("call", "j", <<reducer("inc")>>),
              transition("loop", "h", <<>>),
              transition("bad", "nowhere", <<reducer("inc")>>),
              transition("worse", "g", <<reducer("inc")>>)>>),
        state("b", <<transition("back", "a", <<reducer("zero")>>)>>),
        state("c",
            <<immediate("d", <<guard("eq5")>>),
              immediate("e", <<guard("eq1"), action("log"), reducer("plus2"),
                               action("log")>>),
              immediate("b", <<>>)>>),
        state("d", <<transition("back", "a", <<reducer("zero")>>)>>),
        state("e", <<immediate("f", <<reducer("inc")>>)>>),
        state("f",
            <<transition("go", "a", <<>>),
              transition("back", "a", <<reducer("zero")>>)>>),
        state("g", <<immediate("nowhere", <<reducer("inc")>>)>>),
        state("h", <<immediate("i", <<>>)>>),
        state("i", <<immediate("h", <<>>)>>),
        state("j", <<immediate("k", <<reducer("plus2")>>)>>),
        invoke("k", "fetch",
            <<transition("done", "a", <<reducer("payload")>>)>>),
        context(0)>>)

\* A machine without a Context
LightMachine ==
    machine(<<state("red", <<transition("next", "green", <<action("log")>>)>>),
              state("green", <<transition("next", "red", <<>>)>>)>>)

\* A machine with states that have no outgoing transition: the plain State
\* halted, which can be entered while the call of loading is pending, and
\* the Invoke stuck, whose own result finds no transition
TerminalMachine ==
    machine(<<context(0),
              invoke("loading", "fetch",
                  <<transition("done", "ready", <<reducer("payload")>>),
                    transition("stop", "halted", <<>>)>>),
              state("ready",
                  <<transition("stop", "halted", <<reducer("inc")>>),
                    transition("hang", "stuck", <<>>)>>),
              state("halted", <<>>),
              invoke("stuck", "fetch", <<>>)>>)

Machines == {CounterMachine, FetchMachine, ChainMachine, LightMachine}

\* The event of a type: events of type done carry a payload
EventOf(type) ==
    IF type = "done" THEN [type |-> "done", payload |-> 3] ELSE [type |-> type]

\* The events callers of a service of machine m send: one event of every
\* type that a transition of m names
Events(m) ==
    UNION {{EventOf(m.states[s].value.transitions[t].name) :
                t \in 1..Len(m.states[s].value.transitions)} :
           s \in 1..Len(m.states)}

\* The functions passed to subscribe: every call of subscribe passes a
\* function of its own, named by its position in the subscriber list
SubscriberFns == 1..MaxSubscribers

\* A subscriber that sends to the service it listens to: on an inc it
\* sends a reset, (machine, event) => { if (event.type === 'inc')
\* service.send({type: 'reset'}) }
Resender == 0

\* The events a subscriber function sends to the service while it is called
\* with the event; the functions of SubscriberFns only observe
SubscriberFn(fn, event) ==
    IF fn = Resender /\ event.type = "inc" THEN <<[type |-> "reset"]>>
    ELSE <<>>

(***************************************************************************)
(* The service of src/interpret.ts.                                        *)
(*                                                                         *)
(* heap holds every machine object allocated so far, in allocation order;  *)
(* a machine reference is an index into heap.  The other variables are the *)
(* fields of the service and what its callbacks and callers observed.      *)
(***************************************************************************)
VARIABLES
    heap,            \* the machine objects, heap[1] is the one given to interpret
    serviceMachine,  \* service.machine: a reference into heap
    subscribers,     \* service.subscribers
    subscribedAt,    \* for each subscriber, the number of machine objects when it subscribed
    calls,           \* the calls of subscribers: [subscriber, machine, event]
    actionCalls,     \* the calls of action functions: [fn, context, event]
    invokes,         \* the calls of invoke functions: [state, fn, context, settled]
    applied,         \* the transition and immediates entered by the last send
    thrown,          \* what the last call threw, "" when it returned
    last             \* the last call: its name, its arguments and the service before it

vars == <<heap, serviceMachine, subscribers, subscribedAt, calls, actionCalls,
          invokes, applied, thrown, last>>

\* The service as one value
Service ==
    [heap |-> heap, machine |-> serviceMachine, subscribers |-> subscribers,
     subscribedAt |-> subscribedAt, calls |-> calls,
     actionCalls |-> actionCalls, invokes |-> invokes, applied |-> applied,
     thrown |-> thrown]

\* this.machine
machineOf(service) == service.heap[service.machine]

\* A context() that reads the machine passed to interpret, which the
\* closure of the service still holds, instead of this.machine
serviceContextOfInitial(service) ==
    IF service.heap[1].context = <<>> THEN undefined
    ELSE service.heap[1].context[1].value

\* context(): this.machine.context?.value
serviceContext(service) ==
    IF machineOf(service).context = <<>> THEN undefined
    ELSE machineOf(service).context[1].value

\* matches(match), match a state name or an array of state names
matches(service, match) == match = machineOf(service).state.name

matchesArray(service, match) ==
    \E i \in 1..Len(match) : match[i] = machineOf(service).state.name

\* guards.every(guard => guard.fn(ctx))
every(guards, ctx) == \A i \in 1..Len(guards) : GuardFn(guards[i].fn, ctx)

\* A find that matches on the event name alone and evaluates no guard
findTransitionByName(transitions, event, ctx) ==
    IF \E i \in 1..Len(transitions) : transitions[i].name = event.type
    THEN CHOOSE i \in 1..Len(transitions) :
            /\ transitions[i].name = event.type
            /\ \A j \in 1..(i - 1) : transitions[j].name # event.type
    ELSE 0

\* A find that returns the last eligible transition instead of the first
findTransitionLast(transitions, event, ctx) ==
    IF \E i \in 1..Len(transitions) :
            transitions[i].name = event.type /\ every(transitions[i].guards, ctx)
    THEN CHOOSE i \in 1..Len(transitions) :
            /\ transitions[i].name = event.type
            /\ every(transitions[i].guards, ctx)
            /\ \A j \in (i + 1)..Len(transitions) :
                  ~(transitions[j].name = event.type
                    /\ every(transitions[j].guards, ctx))
    ELSE 0

\* transitions.find(t => t.name === event.type && t.guards.every(...)):
\* the index of the transition found, 0 for undefined
findTransition(transitions, event, ctx) ==
    IF \E i \in 1..Len(transitions) :
            transitions[i].name = event.type /\ every(transitions[i].guards, ctx)
    THEN CHOOSE i \in 1..Len(transitions) :
            /\ transitions[i].name = event.type
            /\ every(transitions[i].guards, ctx)
            /\ \A j \in 1..(i - 1) :
                  ~(transitions[j].name = event.type
                    /\ every(transitions[j].guards, ctx))
    ELSE 0

\* An enter that does not look at the immediates of the state entered
findImmediateNever(immediates, ctx) == 0

\* A find that takes the first immediate declared without calling its guards
findImmediateFirst(immediates, ctx) == IF immediates = <<>> THEN 0 ELSE 1

\* A find that only takes an immediate declared without guards
findImmediateUnguarded(immediates, ctx) ==
    IF \E i \in 1..Len(immediates) : immediates[i].guards = <<>>
    THEN CHOOSE i \in 1..Len(immediates) :
            /\ immediates[i].guards = <<>>
            /\ \A j \in 1..(i - 1) : immediates[j].guards # <<>>
    ELSE 0

\* immediates.find(i => i.guards.every(g => g.fn(nextContext)))
findImmediate(immediates, ctx) ==
    IF \E i \in 1..Len(immediates) : every(immediates[i].guards, ctx)
    THEN CHOOSE i \in 1..Len(immediates) :
            /\ every(immediates[i].guards, ctx)
            /\ \A j \in 1..(i - 1) : ~every(immediates[j].guards, ctx)
    ELSE 0

\* A fold without the Action case: what an action function returns
\* (undefined) becomes the running context
RECURSIVE reduceActionAsReducer(_, _, _, _)
reduceActionAsReducer(reducers, ctx, event, log) ==
    IF reducers = <<>> THEN [context |-> ctx, actionCalls |-> log]
    ELSE IF isType(actionProto, Head(reducers))
    THEN reduceActionAsReducer(Tail(reducers), undefined, event,
            Append(log, [fn |-> Head(reducers).fn, context |-> ctx,
                         event |-> event]))
    ELSE reduceActionAsReducer(Tail(reducers),
            ReducerFn(Head(reducers).fn, ctx, event), event, log)

\* A fold that calls the action functions with the running context alone:
\* the event they receive is undefined
RECURSIVE reduceWithoutEvent(_, _, _, _)
reduceWithoutEvent(reducers, ctx, event, log) ==
    IF reducers = <<>> THEN [context |-> ctx, actionCalls |-> log]
    ELSE IF isType(actionProto, Head(reducers))
    THEN reduceWithoutEvent(Tail(reducers), ctx, event,
            Append(log, [fn |-> Head(reducers).fn, context |-> ctx,
                         event |-> [type |-> "undefined"]]))
    ELSE reduceWithoutEvent(Tail(reducers),
            ReducerFn(Head(reducers).fn, ctx, event), event, log)

\* transition.reducers.reduce(...): the fold of the reducer/action family
\* over the running context; log is the list of action calls so far.
RECURSIVE reduce(_, _, _, _)
reduce(reducers, ctx, event, log) ==
    IF reducers = <<>> THEN [context |-> ctx, actionCalls |-> log]
    ELSE IF isType(actionProto, Head(reducers))
    THEN reduce(Tail(reducers), ctx, event,
            Append(log, [fn |-> Head(reducers).fn, context |-> ctx,
                         event |-> event]))
    ELSE reduce(Tail(reducers),
            ReducerFn(Head(reducers).fn, ctx, event), event, log)

\* A start that leaves out the call of the invoke function
startInvokeNever(started, nextState, ctx) == started

\* A start that cancels the calls still pending (latest call wins)
startInvokeCancelling(started, nextState, ctx) ==
    Append([c \in 1..Len(started) |-> [started[c] EXCEPT !.settled = TRUE]],
           [state |-> nextState.name, fn |-> nextState.fn,
            context |-> ctx, settled |-> FALSE])

\* A start that calls the invoke function twice
startInvokeTwice(started, nextState, ctx) ==
    started \o [c \in 1..2 |-> [state |-> nextState.name, fn |-> nextState.fn,
                                 context |-> ctx, settled |-> FALSE]]

\* nextState.fn(nextContext).then(service.send): the call is recorded as
\* pending; its promise resolves in a later step (Resolve).
startInvoke(started, nextState, ctx) ==
    Append(started, [state |-> nextState.name, fn |-> nextState.fn,
                     context |-> ctx, settled |-> FALSE])

\* An enter with cycle detection: when the immediate found has been
\* entered before in this send, the chain stops at the state reached
RECURSIVE enterStoppingAtCycle(_, _, _, _, _)
enterStoppingAtCycle(service, event, trans, fx, chain) ==
    LET folded == reduce(trans.reducers, serviceContext(service), event,
                         fx.actionCalls)
        nextContext == folded.context
        states == machineOf(service).states
        trace == Append(fx.applied,
                    [via |-> trans, from |-> serviceContext(service),
                     to |-> nextContext,
                     actionCalls |-> Len(folded.actionCalls)])
    IN  IF ~MapHas(states, trans.state)
        THEN [thrown |-> "transition led to non existent state",
              machine |-> machineOf(service),
              actionCalls |-> folded.actionCalls, invokes |-> fx.invokes,
              applied |-> trace]
        ELSE
        LET nextState == MapGet(states, trans.state)
            nextMachine ==
                immutable(machineProto,
                    [states |-> states,
                     context |-> <<immutable(contextProto,
                                             [value |-> nextContext])>>,
                     state |-> nextState])
        IN  IF isType(invokeProto, nextState)
            THEN [thrown |-> "", machine |-> nextMachine,
                  actionCalls |-> folded.actionCalls,
                  invokes |-> startInvoke(fx.invokes, nextState, nextContext),
                  applied |-> trace]
            ELSE
            LET i == findImmediate(nextState.immediates, nextContext)
            IN  IF i = 0
                THEN [thrown |-> "", machine |-> nextMachine,
                      actionCalls |-> folded.actionCalls,
                      invokes |-> fx.invokes, applied |-> trace]
                ELSE IF nextState.immediates[i] \in chain
                THEN [thrown |-> "", machine |-> nextMachine,
                      actionCalls |-> folded.actionCalls,
                      invokes |-> fx.invokes, applied |-> trace]
                ELSE enterStoppingAtCycle(service, event, nextState.immediates[i],
                           [actionCalls |-> folded.actionCalls,
                            invokes |-> fx.invokes, applied |-> trace],
                           chain \cup {nextState.immediates[i]})

\* enter(service, event, transition).  fx carries the action calls, the
\* invoke calls and the applications made so far in this send; chain is the
\* set of immediates this send has already entered.  Every level of the
\* recursion reads the same service.machine, so entering an immediate a
\* second time repeats for ever: the recursion ends in the engine's
\* RangeError.
RECURSIVE enter(_, _, _, _, _)
enter(service, event, trans, fx, chain) ==
    LET folded == reduce(trans.reducers, serviceContext(service), event,
                         fx.actionCalls)
        nextContext == folded.context
        states == machineOf(service).states
        trace == Append(fx.applied,
                    [via |-> trans, from |-> serviceContext(service),
                     to |-> nextContext,
                     actionCalls |-> Len(folded.actionCalls)])
    IN  IF ~MapHas(states, trans.state)
        THEN [thrown |-> "transition led to non existent state",
              machine |-> machineOf(service),
              actionCalls |-> folded.actionCalls, invokes |-> fx.invokes,
              applied |-> trace]
        ELSE
        LET nextState == MapGet(states, trans.state)
            nextMachine ==
                immutable(machineProto,
                    [states |-> states,
                     context |-> <<immutable(contextProto,
                                             [value |-> nextContext])>>,
                     state |-> nextState])
        IN  IF isType(invokeProto, nextState)
            THEN [thrown |-> "", machine |-> nextMachine,
                  actionCalls |-> folded.actionCalls,
                  invokes |-> startInvoke(fx.invokes, nextState, nextContext),
                  applied |-> trace]
            ELSE
            LET i == findImmediate(nextState.immediates, nextContext)
            IN  IF i = 0
                THEN [thrown |-> "", machine |-> nextMachine,
                      actionCalls |-> folded.actionCalls,
                      invokes |-> fx.invokes, applied |-> trace]
                ELSE IF nextState.immediates[i] \in chain
                THEN [thrown |-> "RangeError",
                      machine |-> machineOf(service),
                      actionCalls |-> folded.actionCalls,
                      invokes |-> fx.invokes, applied |-> trace]
                ELSE enter(service, event, nextState.immediates[i],
                           [actionCalls |-> folded.actionCalls,
                            invokes |-> fx.invokes, applied |-> trace],
                           chain \cup {nextState.immediates[i]})

\* An assignment into the held machine object instead of a new object
installInPlace(service, object) ==
    [service EXCEPT !.heap[service.machine] = object]

\* this.machine = <the machine object enter returned>
install(service, object) ==
    [service EXCEPT !.heap = Append(service.heap, object),
                    !.machine = Len(service.heap) + 1]

RECURSIVE send(_, _)
RECURSIVE sendAll(_, _)
RECURSIVE forEach(_, _, _)

\* The sends a subscriber makes during its call, one after the other
sendAll(service, events) ==
    IF events = <<>> THEN service
    ELSE LET sent == send(service, Head(events))
         IN  IF sent.thrown # "" THEN sent ELSE sendAll(sent, Tail(events))

\* A notification round that runs from the last subscriber to the first
forEachSubscriberReversed(service, event) ==
    [service EXCEPT !.calls = service.calls \o
        [i \in 1..Len(service.subscribers) |->
            [subscriber |->
                service.subscribers[Len(service.subscribers) + 1 - i],
             machine |-> service.machine, event |-> event]]]

\* The callback of forEach, from the subscriber at index i on: each call
\* reads this.machine when it is made, and the sends of the subscriber run
\* to their end inside its call; an exception ends the round
forEach(service, event, i) ==
    IF i > Len(service.subscribers) THEN service
    ELSE
    LET called == [service EXCEPT !.calls = Append(service.calls,
                        [subscriber |-> service.subscribers[i],
                         machine |-> service.machine, event |-> event])]
        returned == sendAll(called, SubscriberFn(service.subscribers[i], event))
    IN  IF returned.thrown # "" THEN returned
        ELSE forEach(returned, event, i + 1)

\* this.subscribers.forEach(subscriber => subscriber(this.machine, event))
forEachSubscriber(service, event) == forEach(service, event, 1)

\* A send that notifies the subscribers in a finally block, also when
\* enter threw
sendNotifiesOnThrow(service, event) ==
    LET t == findTransition(machineOf(service).state.transitions, event,
                            serviceContext(service))
    IN  IF t = 0 THEN [service EXCEPT !.thrown = "", !.applied = <<>>]
        ELSE
        LET entered == enter(service, event,
                             machineOf(service).state.transitions[t],
                             [actionCalls |-> service.actionCalls,
                              invokes |-> service.invokes, applied |-> <<>>],
                             {})
            effects == [service EXCEPT !.thrown = entered.thrown,
                                       !.actionCalls = entered.actionCalls,
                                       !.invokes = entered.invokes,
                                       !.applied = entered.applied]
        IN  IF entered.thrown # "" THEN forEachSubscriber(effects, event)
            ELSE forEachSubscriber(install(effects, entered.machine), event)

\* A send that calls the subscribers whether or not a transition was found
sendNotifiesAlways(service, event) ==
    LET t == findTransition(machineOf(service).state.transitions, event,
                            serviceContext(service))
    IN  IF t = 0
        THEN forEachSubscriber([service EXCEPT !.thrown = "",
                                               !.applied = <<>>], event)
        ELSE
        LET entered == enter(service, event,
                             machineOf(service).state.transitions[t],
                             [actionCalls |-> service.actionCalls,
                              invokes |-> service.invokes, applied |-> <<>>],
                             {})
            effects == [service EXCEPT !.thrown = entered.thrown,
                                       !.actionCalls = entered.actionCalls,
                                       !.invokes = entered.invokes,
                                       !.applied = entered.applied]
        IN  IF entered.thrown # "" THEN effects
            ELSE forEachSubscriber(install(effects, entered.machine), event)

\* send(event)
send(service, event) ==
    LET t == findTransition(machineOf(service).state.transitions, event,
                            serviceContext(service))
    IN  IF t = 0 THEN [service EXCEPT !.thrown = "", !.applied = <<>>]
        ELSE
        LET entered == enter(service, event,
                             machineOf(service).state.transitions[t],
                             [actionCalls |-> service.actionCalls,
                              invokes |-> service.invokes, applied |-> <<>>],
                             {})
            effects == [service EXCEPT !.thrown = entered.thrown,
                                       !.actionCalls = entered.actionCalls,
                                       !.invokes = entered.invokes,
                                       !.applied = entered.applied]
        IN  IF entered.thrown # "" THEN effects
            ELSE forEachSubscriber(install(effects, entered.machine), event)

\* subscribe(subscriber)
subscribe(service, subscriber) ==
    [service EXCEPT !.subscribers = Append(service.subscribers, subscriber),
                    !.subscribedAt = Append(service.subscribedAt,
                                            Len(service.heap)),
                    !.thrown = "", !.applied = <<>>]

\* An interpret that does not look at the kind of the initial state
interpretWithoutInvoke(m) ==
    [heap |-> <<m>>, machine |-> 1, subscribers |-> <<>>,
     subscribedAt |-> <<>>, calls |-> <<>>, actionCalls |-> <<>>,
     invokes |-> <<>>, applied |-> <<>>, thrown |-> ""]

\* interpret(machine)
interpret(m) ==
    LET service == [heap |-> <<m>>, machine |-> 1, subscribers |-> <<>>,
                    subscribedAt |-> <<>>, calls |-> <<>>,
                    actionCalls |-> <<>>, invokes |-> <<>>, applied |-> <<>>,
                    thrown |-> ""]
    IN  IF isType(invokeProto, m.state)
        THEN [service EXCEPT !.invokes =
                startInvoke(<<>>, m.state, serviceContext(service))]
        ELSE service

(***************************************************************************)
(* The state machine                                                       *)
(***************************************************************************)
Constructed(service) ==
    /\ heap = service.heap
    /\ serviceMachine = service.machine
    /\ subscribers = service.subscribers
    /\ subscribedAt = service.subscribedAt
    /\ calls = service.calls
    /\ actionCalls = service.actionCalls
    /\ invokes = service.invokes
    /\ applied = service.applied
    /\ thrown = service.thrown

Installs(service) ==
    /\ heap' = service.heap
    /\ serviceMachine' = service.machine
    /\ subscribers' = service.subscribers
    /\ subscribedAt' = service.subscribedAt
    /\ calls' = service.calls
    /\ actionCalls' = service.actionCalls
    /\ invokes' = service.invokes
    /\ applied' = service.applied
    /\ thrown' = service.thrown

WithinBounds(service) == Len(service.heap) <= MaxSnapshots

\* The invoke calls whose promise has not resolved
Pending(service) ==
    {c \in 1..Len(service.invokes) : ~service.invokes[c].settled}

\* What last keeps of the service before a call
Before(service) ==
    [machine |-> service.machine,
     state |-> machineOf(service).state,
     context |-> serviceContext(service),
     heap |-> Len(service.heap),
     calls |-> Len(service.calls),
     actionCalls |-> Len(service.actionCalls),
     invokes |-> Len(service.invokes),
     pending |-> Pending(service)]

Init ==
    \E m \in Machines :
        /\ Constructed(interpret(m))
        /\ last = [op |-> "interpret"]

\* A caller sends an event
Send(event) ==
    /\ WithinBounds(send(Service, event))
    /\ Installs(send(Service, event))
    /\ last' = [op |-> "send", event |-> event, before |-> Before(Service)]

\* The promise of an invoke call resolves: .then(service.send)
Resolve(c, event) ==
    /\ ~invokes[c].settled
    /\ event \in Invokable(invokes[c].fn, invokes[c].context)
    /\ LET service == [Service EXCEPT !.invokes[c].settled = TRUE]
       IN  /\ WithinBounds(send(service, event))
           /\ Installs(send(service, event))
    /\ last' = [op |-> "resolve", event |-> event, call |-> c,
                before |-> Before(Service)]

\* A caller subscribes
Subscribe(subscriber) ==
    /\ Len(subscribers) < MaxSubscribers
    /\ subscriber = Len(subscribers) + 1
    /\ Installs(subscribe(Service, subscriber))
    /\ last' = [op |-> "subscribe", subscriber |-> subscriber,
                before |-> Before(Service)]

Next ==
    \/ \E event \in Events(heap[1]) : Send(event)
    \/ \E c \in 1..Len(invokes) :
          \E event \in Invokable(invokes[c].fn, invokes[c].context) :
              Resolve(c, event)
    \/ \E subscriber \in SubscriberFns : Subscribe(subscriber)

Spec == Init /\ [][Next]_vars

(***************************************************************************)
(* The service of the counter machine of test/integration.test.ts, with    *)
(* callers that send inc, dec and reset in any order                       *)
(***************************************************************************)
CounterInit ==
    /\ Constructed(interpret(CounterMachine))
    /\ last = [op |-> "interpret"]

\* A caller sends an event to the counter service
CounterSend(event) ==
    /\ Len(send(Service, event).heap) <= MaxCounterSnapshots
    /\ Installs(send(Service, event))
    /\ last' = [op |-> "send", event |-> event, before |-> Before(Service)]

CounterNext ==
    \/ \E event \in Events(CounterMachine) : CounterSend(event)
    \/ \E subscriber \in SubscriberFns : Subscribe(subscriber)

SpecCounter == CounterInit /\ [][CounterNext]_vars

(***************************************************************************)
(* The service of the counter machine with a subscriber that calls send    *)
(* on the service while it is notified                                     *)
(***************************************************************************)
\* A caller subscribes the function that sends a reset when it sees an inc
SubscribeResender ==
    /\ Len(subscribers) < MaxSubscribers
    /\ Installs(subscribe(Service, Resender))
    /\ last' = [op |-> "subscribe", subscriber |-> Resender,
                before |-> Before(Service)]

ReentrantNext ==
    \/ \E event \in Events(CounterMachine) : CounterSend(event)
    \/ \E subscriber \in SubscriberFns : Subscribe(subscriber)
    \/ SubscribeResender

SpecReentrant == CounterInit /\ [][ReentrantNext]_vars

(***************************************************************************)
(* The service of a machine with states that have no outgoing transition   *)
(***************************************************************************)
TerminalInit ==
    /\ Constructed(interpret(TerminalMachine))
    /\ last = [op |-> "interpret"]

SpecTerminal == TerminalInit /\ [][Next]_vars



(***************************************************************************)
(* The builder: a caller holds a list of components and passes it to       *)
(* machine                                                                 *)
(***************************************************************************)
\* The components callers pass to machine: a Context, two State objects of
\* the same name (one of them with a reducer), a State of another name and
\* an Invoke that shares the name of a State
Components ==
    {context(0),
     state("idle", <<>>),
     state("idle", <<transition("go", "busy", <<reducer("inc")>>)>>),
     state("busy", <<>>),
     invoke("busy", "fetch", <<>>)}

\* The argument lists of at most MaxArgs components
ArgLists == UNION {[1..n -> Components] : n \in 0..MaxArgs}

\* No service exists
NoService ==
    /\ heap = <<>>
    /\ serviceMachine = 0
    /\ subscribers = <<>>
    /\ subscribedAt = <<>>
    /\ calls = <<>>
    /\ actionCalls = <<>>
    /\ invokes = <<>>
    /\ applied = <<>>

BuilderInit ==
    /\ NoService
    /\ thrown = ""
    /\ \E args \in ArgLists : last = [op |-> "args", args |-> args]

\* The caller calls machine(...args): the machine is built and, as __DEV__
\* is set, validated
Machine ==
    /\ last.op = "args"
    /\ last' = [op |-> "machine", args |-> last.args,
                result |-> machine(last.args),
                warnings |-> IF "thrown" \in DOMAIN machine(last.args)
                             THEN <<>>
                             ELSE machineIsValid(machine(last.args))]
    /\ thrown' = IF "thrown" \in DOMAIN machine(last.args)
                 THEN machine(last.args).thrown ELSE ""
    /\ UNCHANGED <<heap, serviceMachine, subscribers, subscribedAt, calls,
                   actionCalls, invokes, applied>>

BuilderNext == Machine

SpecBuilder == BuilderInit /\ [][BuilderNext]_vars



(***************************************************************************)
(* Properties.  They are stated over what a caller can observe: the        *)
(* service after a call, and in `last` the call and the service before it. *)
(***************************************************************************)
\* The last call went through send (from a caller or from a resolved promise)
Sent == last.op \in {"send", "resolve"}

\* The last call installed a new snapshot
Accepted == Sent /\ Len(heap) > last.before.heap

\* A transition or immediate is eligible: its guards all pass
GuardsPass(t, ctx) == \A k \in 1..Len(t.guards) : GuardFn(t.guards[k].fn, ctx)

Eligible(t, event, ctx) == t.name = event.type /\ GuardsPass(t, ctx)

\* The eligible transitions of the state that was current before the last send
EligibleTransitions ==
    {i \in 1..Len(last.before.state.transitions) :
        Eligible(last.before.state.transitions[i], last.event,
                 last.before.context)}

\* The first eligible transition, in declaration order
FirstEligible ==
    last.before.state.transitions[
        CHOOSE i \in EligibleTransitions :
            \A j \in EligibleTransitions : i <= j]

\* The state a name is mapped to; the mapping is the same in every snapshot
Known(name) == \E i \in 1..Len(heap[1].states) : heap[1].states[i].key = name

StateNamed(name) ==
    heap[1].states[CHOOSE i \in 1..Len(heap[1].states) :
                        heap[1].states[i].key = name].value

IsInvoke(st) == st.proto = invokeProto

\* The fold of the Reducers of a family alone
RECURSIVE ReducersOnly(_, _, _)
ReducersOnly(family, ctx, event) ==
    IF family = <<>> THEN ctx
    ELSE ReducersOnly(Tail(family),
            IF Head(family).proto = reducerProto
            THEN ReducerFn(Head(family).fn, ctx, event) ELSE ctx,
            event)

\* The held snapshot is the one held before the last call
SnapshotKept ==
    /\ serviceMachine = last.before.machine
    /\ Len(heap) = last.before.heap
    /\ machineOf(Service).state = last.before.state
    /\ serviceContext(Service) = last.before.context

\* The subscriber calls made by the last call
NewCalls == SubSeq(calls, last.before.calls + 1, Len(calls))

\* The current state needs no further immediate
AtRest ==
    \/ IsInvoke(machineOf(Service).state)
    \/ \A i \in 1..Len(machineOf(Service).state.immediates) :
          ~GuardsPass(machineOf(Service).state.immediates[i],
                      serviceContext(Service))

\* C1: a send of an event for which no transition of the current state has
\* the event's type as name and all guards passing leaves the held snapshot
\* as it was (same current state, same context value), calls no subscriber
\* and raises no error.
C1_UnhandledEventIsNoOp ==
    (Sent /\ EligibleTransitions = {}) =>
        /\ SnapshotKept
        /\ NewCalls = <<>>
        /\ thrown = ""

\* C1 witness: an event was sent whose type names a transition of the
\* current state, but a guard of every such transition fails.
C1_Witness ==
    /\ Sent
    /\ EligibleTransitions = {}
    /\ \E i \in 1..Len(last.before.state.transitions) :
          last.before.state.transitions[i].name = last.event.type
    /\ SnapshotKept

\* C2: send fires exactly one transition, the first one in declaration
\* order whose name is the event's type and whose guards all pass; none
\* fires when there is no such transition.
C2_FirstMatchWins ==
    Sent =>
        IF EligibleTransitions = {} THEN applied = <<>>
        ELSE /\ applied # <<>>
             /\ applied[1].via = FirstEligible
             /\ \A k \in 2..Len(applied) : applied[k].via.proto = immediateProto
             /\ (thrown = "" /\ Len(applied) = 1) =>
                    /\ Accepted
                    /\ machineOf(Service).state.name = FirstEligible.state

\* C2 witness: two transitions were eligible, declared after one with the
\* same name and a failing guard, and the first eligible one fired.
C2_Witness ==
    /\ Sent
    /\ Cardinality(EligibleTransitions) >= 2
    /\ \E i \in 1..Len(last.before.state.transitions) :
          /\ last.before.state.transitions[i].name = last.event.type
          /\ \A j \in EligibleTransitions : i < j
    /\ applied # <<>>
    /\ applied[1].via = FirstEligible

\* The last send fired a transition into a plain State that has an eligible
\* immediate, and the chain of immediates came to an end
C3_Chained ==
    /\ Sent
    /\ EligibleTransitions # {}
    /\ thrown = ""
    /\ Known(FirstEligible.state)
    /\ ~IsInvoke(StateNamed(FirstEligible.state))
    /\ \E i \in 1..Len(StateNamed(FirstEligible.state).immediates) :
          GuardsPass(StateNamed(FirstEligible.state).immediates[i],
                     ReducersOnly(FirstEligible.reducers, last.before.context,
                                  last.event))

\* C3: when the transition fired targets a plain State with an eligible
\* immediate, the chain of immediates is applied inside the same send: one
\* snapshot is installed, its current state is the end of the chain and
\* needs no further immediate, and every subscriber called by this send
\* receives that snapshot.
C3_ImmediateChaining ==
    C3_Chained =>
        /\ Len(heap) = last.before.heap + 1
        /\ serviceMachine = Len(heap)
        /\ AtRest
        /\ Len(applied) >= 2
        /\ \A k \in 2..Len(applied) :
              /\ applied[k].via.proto = immediateProto
              /\ \E i \in 1..Len(StateNamed(applied[k - 1].via.state).immediates) :
                    StateNamed(applied[k - 1].via.state).immediates[i]
                        = applied[k].via
        /\ machineOf(Service).state
              = StateNamed(applied[Len(applied)].via.state)
        /\ \A k \in 1..Len(NewCalls) : NewCalls[k].machine = serviceMachine

\* C3 witness: a send chained two immediates and installed the state at the
\* end of the chain, with a subscriber called.
C3_Witness ==
    /\ C3_Chained
    /\ Len(applied) = 3
    /\ machineOf(Service).state.name = applied[3].via.state
    /\ machineOf(Service).state.name # FirstEligible.state
    /\ NewCalls # <<>>

\* The number of snapshots installed since the subscribers i..n that
\* registered the function fn were added
RECURSIVE InstalledSince(_, _)
InstalledSince(fn, i) ==
    IF i > Len(subscribers) THEN 0
    ELSE (IF subscribers[i] = fn THEN Len(heap) - subscribedAt[i] ELSE 0)
         + InstalledSince(fn, i + 1)

\* C4: an accepted send calls every subscriber exactly once, in
\* subscription order, with the newly installed snapshot and the event
\* sent; a send that installs nothing calls none; so a subscriber has been
\* called once per snapshot installed since it subscribed, however many
\* immediates were chained.
C4_SubscribersNotifiedOncePerSend ==
    /\ Sent =>
          IF Accepted
          THEN /\ serviceMachine = Len(heap)
               /\ NewCalls =
                    [i \in 1..Len(subscribers) |->
                        [subscriber |-> subscribers[i],
                         machine |-> serviceMachine,
                         event |-> last.event]]
          ELSE NewCalls = <<>>
    /\ \A fn \in SubscriberFns :
          Cardinality({k \in 1..Len(calls) : calls[k].subscriber = fn})
              = InstalledSince(fn, 1)

\* C4 witness: a send that chained an immediate was accepted with two
\* different subscribers registered, the second one later than the first.
C4_Witness ==
    /\ Accepted
    /\ Len(applied) >= 2
    /\ Len(subscribers) = 2
    /\ subscribers[1] # subscribers[2]
    /\ subscribedAt[1] < subscribedAt[2]
    /\ Len(NewCalls) = 2
    /\ Len(calls) > 2

\* C5: a machine object is never changed once it exists, the machine given
\* to interpret included, and the service only ever moves to a newly
\* created object.
C5_SnapshotsImmutable ==
    [][/\ \A i \in 1..Len(heap) : Len(heap') >= i /\ heap'[i] = heap[i]
       /\ serviceMachine' # serviceMachine =>
             /\ Len(heap') = Len(heap) + 1
             /\ serviceMachine' = Len(heap')]_vars

\* C5 witness: three snapshots have been held, the earlier ones differ from
\* the current one and the first is still the machine given to interpret.
C5_Witness ==
    /\ Len(heap) >= 3
    /\ serviceMachine = Len(heap)
    /\ heap[1] \in Machines
    /\ heap[1].state # heap[serviceMachine].state
    /\ heap[2].context # heap[serviceMachine].context

\* The action calls of a family folded over a running context
RECURSIVE ActionCallsOf(_, _, _)
ActionCallsOf(family, ctx, event) ==
    IF family = <<>> THEN <<>>
    ELSE IF Head(family).proto = actionProto
    THEN <<[fn |-> Head(family).fn, context |-> ctx, event |-> event]>>
            \o ActionCallsOf(Tail(family), ctx, event)
    ELSE ActionCallsOf(Tail(family),
            ReducerFn(Head(family).fn, ctx, event), event)

\* The action calls recorded before the k-th application of the last send
ActionCallsBefore(k) ==
    IF k = 1 THEN last.before.actionCalls ELSE applied[k - 1].actionCalls

\* C6: every application of a transition or immediate folds its
\* reducer/action family in declaration order: the resulting context is
\* the fold of the Reducers alone, and each Action is called exactly once,
\* with the running context at its position and the event.
C6_ReducerActionFold ==
    Sent =>
        /\ \A k \in 1..Len(applied) :
              /\ applied[k].to
                    = ReducersOnly(applied[k].via.reducers, applied[k].from,
                                   last.event)
              /\ SubSeq(actionCalls, ActionCallsBefore(k) + 1,
                        applied[k].actionCalls)
                    = ActionCallsOf(applied[k].via.reducers, applied[k].from,
                                    last.event)
        /\ Len(actionCalls) = ActionCallsBefore(Len(applied) + 1)
        /\ (Accepted /\ applied # <<>>) =>
              serviceContext(Service) = applied[Len(applied)].to

\* C6 witness: an application called an action before and after a reducer,
\* with different running contexts, and the result was installed.
C6_Witness ==
    /\ Accepted
    /\ \E k \in 1..Len(applied) :
          /\ applied[k].actionCalls = ActionCallsBefore(k) + 2
          /\ actionCalls[applied[k].actionCalls].context
                # actionCalls[applied[k].actionCalls - 1].context
          /\ applied[k].to # applied[k].from

\* The call of the invoke function of state st with context ctx, pending
InvokeCall(st, ctx) ==
    [state |-> st.name, fn |-> st.fn, context |-> ctx, settled |-> FALSE]

\* The subscriber calls of one notification round for the last event
OneRound ==
    [i \in 1..Len(subscribers) |->
        [subscriber |-> subscribers[i], machine |-> serviceMachine,
         event |-> last.event]]

\* C7: a send that ends in an Invoke returns with the Invoke as current
\* state and one call of its function started with the context of the
\* installed snapshot; the event the call resolves with goes through send
\* against the state current at that time: if a transition is eligible and
\* nothing is thrown, a snapshot is installed and every subscriber is
\* called once with that event, and if none is eligible nothing changes.
C7_InvokeRoundTrip ==
    /\ (Accepted /\ IsInvoke(machineOf(Service).state)) =>
          /\ Len(invokes) = last.before.invokes + 1
          /\ invokes[Len(invokes)]
                = InvokeCall(machineOf(Service).state, serviceContext(Service))
    /\ (Accepted /\ ~IsInvoke(machineOf(Service).state)) =>
          Len(invokes) = last.before.invokes
    /\ last.op = "resolve" =>
          /\ last.call \in last.before.pending
          /\ invokes[last.call].settled
          /\ last.event \in Invokable(invokes[last.call].fn,
                                      invokes[last.call].context)
          /\ (EligibleTransitions # {} /\ thrown = "") =>
                /\ Accepted
                /\ applied[1].via = FirstEligible
                /\ serviceContext(Service) = applied[Len(applied)].to
                /\ NewCalls = OneRound
          /\ EligibleTransitions = {} => SnapshotKept /\ NewCalls = <<>>

\* C7 witness: a call started by a send, with the context that send
\* installed, resolved; its event was accepted and a subscriber was called.
C7_Witness ==
    /\ last.op = "resolve"
    /\ last.call >= 2
    /\ invokes[last.call].context # heap[1].context[1].value
    /\ last.before.state.name = invokes[last.call].state
    /\ Accepted
    /\ machineOf(Service).state.name # last.before.state.name
    /\ NewCalls # <<>>

\* C8: an invoke call is never cancelled: a call that was pending before a
\* send or a subscribe is still pending after it, unless it is the call
\* whose result is being delivered; and a result delivered to a state with
\* no eligible transition for it changes neither state nor context, calls
\* no subscriber and raises no error.
C8_NoCancellation ==
    /\ last.op # "interpret" =>
          \A c \in last.before.pending :
              \/ c \in Pending(Service)
              \/ last.op = "resolve" /\ last.call = c
    /\ (last.op = "resolve" /\ EligibleTransitions = {}) =>
          /\ SnapshotKept
          /\ NewCalls = <<>>
          /\ thrown = ""

\* C8 witness: a send had moved the machine out of the Invoke state when
\* the result of its call was delivered, and the result was discarded.
C8_Witness ==
    /\ last.op = "resolve"
    /\ last.before.state.name # invokes[last.call].state
    /\ EligibleTransitions = {}
    /\ SnapshotKept
    /\ Len(heap) >= 2
    /\ Len(subscribers) >= 1

NonExistentState == "transition led to non existent state"

\* C9: send raises 'transition led to non existent state' exactly when the
\* transition fired, or an immediate chained after it, names a target that
\* is not in the state mapping; the held snapshot is then the one held
\* before the call, no subscriber is called and no invoke call is started.
C9_MissingTargetIsFatal ==
    Sent =>
        /\ (EligibleTransitions # {} /\ ~Known(FirstEligible.state)) =>
              thrown = NonExistentState
        /\ (\E k \in 1..Len(applied) : ~Known(applied[k].via.state))
              <=> thrown = NonExistentState
        /\ thrown = NonExistentState =>
              /\ SnapshotKept
              /\ NewCalls = <<>>
              /\ Len(invokes) = last.before.invokes

\* C9 witness: an immediate chained after the transition named a missing
\* state, with a subscriber registered.
C9_Witness ==
    /\ Sent
    /\ thrown = NonExistentState
    /\ Len(applied) = 2
    /\ Known(applied[1].via.state)
    /\ ~Known(applied[2].via.state)
    /\ Len(subscribers) >= 1
    /\ SnapshotKept

\* C10: interpret installs the given machine and notifies no one; it starts
\* one call of the invoke function, with the machine's context value, if
\* and only if the initial current state is an Invoke, and that call stays
\* recorded until its result is delivered; no immediate of the initial
\* state is evaluated.
C10_Construction ==
    /\ last.op = "interpret" =>
          /\ heap \in {<<m>> : m \in Machines}
          /\ serviceMachine = 1
          /\ subscribers = <<>>
          /\ calls = <<>>
          /\ actionCalls = <<>>
          /\ applied = <<>>
          /\ thrown = ""
          /\ invokes =
                IF IsInvoke(heap[1].state)
                THEN <<InvokeCall(heap[1].state, heap[1].context[1].value)>>
                ELSE <<>>
    /\ IsInvoke(heap[1].state) =>
          /\ Len(invokes) >= 1
          /\ [invokes[1] EXCEPT !.settled = FALSE]
                = InvokeCall(heap[1].state, heap[1].context[1].value)
    /\ ~IsInvoke(heap[1].state) => Len(invokes) <= Len(heap) - 1

\* C10 witness: a service was constructed from a machine whose initial
\* state is an Invoke, and its call is pending.
C10_Witness ==
    /\ last.op = "interpret"
    /\ IsInvoke(heap[1].state)
    /\ Pending(Service) = {1}

\* C10 second case: a service was constructed from a machine whose initial
\* state has an eligible immediate, and stays in that state.
C10_ImmediateNotEvaluated ==
    /\ last.op = "interpret"
    /\ ~IsInvoke(heap[1].state)
    /\ ~AtRest
    /\ invokes = <<>>


(***************************************************************************)
(* The counter machine, under SpecCounter                                  *)
(***************************************************************************)
\* A subscriber has listened from the start and every event it was
\* notified of is an inc: the accepted sends so far are incs, one for each
\* machine object after the first
OnlyIncs ==
    /\ Len(subscribers) >= 1
    /\ subscribedAt[1] = 1
    /\ \A k \in 1..Len(calls) : calls[k].event = [type |-> "inc"]

Incs == Len(heap) - 1

\* C11: sending inc six times to the service of the counter machine ends
\* in state idle with context 0, the action has fired exactly once, on the
\* sixth inc, with the running context 0 and the inc event, and after the
\* fifth inc (and every inc before it) the state is counting with the
\* number of incs as context and the action has not fired.
C11_CounterSixIncs ==
    OnlyIncs =>
        /\ Incs \in 1..5 =>
              /\ machineOf(Service).state.name = "counting"
              /\ serviceContext(Service) = Incs
              /\ actionCalls = <<>>
        /\ Incs = 6 =>
              /\ heap[6].state.name = "counting"
              /\ heap[6].context[1].value = 5
              /\ machineOf(Service).state.name = "idle"
              /\ serviceContext(Service) = 0
              /\ actionCalls = <<[fn |-> "actionMock", context |-> 0,
                                  event |-> [type |-> "inc"]]>>

C11_Witness ==
    /\ OnlyIncs
    /\ Incs = 6
    /\ Len(calls) >= 6
    /\ last.op = "send"
    /\ last.event = [type |-> "inc"]
    /\ last.before.state.name = "counting"
    /\ last.before.context = 5
    /\ Len(actionCalls) = 1


(***************************************************************************)
(* The builder and the validator, under SpecBuilder                        *)
(***************************************************************************)
\* machine was called with the argument list last.args
Built == last.op = "machine"

\* The positions of the State and Invoke arguments
StateArgs(args) ==
    {i \in 1..Len(args) : args[i].proto \in {stateProto, invokeProto}}

\* The position of the last State or Invoke argument of a name
LastNamed(args, name) ==
    CHOOSE i \in StateArgs(args) :
        /\ args[i].name = name
        /\ \A j \in StateArgs(args) : args[j].name = name => j <= i

\* Two State or Invoke arguments carry the same name
DuplicateNames(args) ==
    \E i, j \in StateArgs(args) : i # j /\ args[i].name = args[j].name

\* C12: machine(...args) fails with 'machine needs at least one state'
\* exactly when no argument is a State or an Invoke (only a Context, or no
\* argument at all), and then it returns no machine; with at least one
\* State or Invoke argument it does not fail and returns a machine.
C12_MachineNeedsState ==
    Built =>
        /\ (thrown = "machine needs at least one state")
              <=> (StateArgs(last.args) = {})
        /\ StateArgs(last.args) = {} => DOMAIN last.result = {"thrown"}
        /\ StateArgs(last.args) # {} =>
              /\ thrown = ""
              /\ last.result.proto = machineProto

C12_Witness ==
    /\ Built
    /\ last.args = <<context(0)>>
    /\ thrown = "machine needs at least one state"

\* C13: the machine built by machine(...args) has the first State or
\* Invoke argument as initial current state, wherever the Context
\* arguments are and also when that argument is an Invoke; the keys of its
\* state mapping are exactly the names of the State and Invoke arguments,
\* each once, and each name is mapped to the last argument that carries it.
C13_InitialStateAndMapping ==
    (Built /\ StateArgs(last.args) # {}) =>
        LET args == last.args
            first == CHOOSE i \in StateArgs(args) :
                        \A j \in StateArgs(args) : i <= j
            states == last.result.states
        IN  /\ thrown = ""
            /\ last.result.state = args[first]
            /\ {states[k].key : k \in 1..Len(states)}
                  = {args[i].name : i \in StateArgs(args)}
            /\ \A k, l \in 1..Len(states) :
                  states[k].key = states[l].key => k = l
            /\ \A k \in 1..Len(states) :
                  states[k].value = args[LastNamed(args, states[k].key)]

C13_Witness ==
    /\ Built
    /\ last.args = <<context(0), invoke("busy", "fetch", <<>>),
                     state("busy", <<>>)>>
    /\ last.result.state = invoke("busy", "fetch", <<>>)
    /\ Len(last.result.states) = 1
    /\ last.result.states[1].value = state("busy", <<>>)

\* C14: when two State or Invoke arguments of machine carry the same
\* name, statesAreValid is false of the machine built and the warning
\* 'machine has duplicate states' is printed; when all names are distinct
\* statesAreValid is true and the warning is not printed.
C14_DuplicateStatesWarned ==
    (Built /\ StateArgs(last.args) # {}) =>
        /\ statesAreValid(last.result) <=> ~DuplicateNames(last.args)
        /\ (\E w \in 1..Len(last.warnings) :
                last.warnings[w] = "machine has duplicate states")
              <=> DuplicateNames(last.args)


(***************************************************************************)
(* Determinism, under Spec                                                 *)
(***************************************************************************)
\* A service that holds the snapshot held before the last send and nothing
\* else: no subscriber, no earlier snapshot, no earlier call
Fresh ==
    [heap |-> <<heap[last.before.machine]>>, machine |-> 1,
     subscribers |-> <<>>, subscribedAt |-> <<>>, calls |-> <<>>,
     actionCalls |-> <<>>, invokes |-> <<>>, applied |-> <<>>, thrown |-> ""]

\* C15: what a send does is fixed by the held snapshot and the event: the
\* same event sent to a service that holds the same snapshot, but has no
\* subscriber and no history, is accepted or discarded (or fails) alike and
\* installs a snapshot with the same current state, context and mapping.
C15_Deterministic ==
    Sent =>
        LET again == send(Fresh, last.event)
        IN  /\ (Len(again.heap) = 2) <=> Accepted
            /\ again.thrown = thrown
            /\ Accepted => machineOf(again) = machineOf(Service)
            /\ again.actionCalls =
                 SubSeq(actionCalls, last.before.actionCalls + 1,
                        Len(actionCalls))
            /\ Len(again.invokes) = Len(invokes) - last.before.invokes

C15_Witness ==
    /\ Accepted
    /\ last.before.machine > 1
    /\ Len(subscribers) = MaxSubscribers
    /\ NewCalls # <<>>
    /\ last.before.calls > 0
    /\ serviceContext(Service) # last.before.context
    /\ machineOf(Service).state # last.before.state


(***************************************************************************)
(* Immediate chains, under Spec                                            *)
(***************************************************************************)
\* The fold of the Reducers of the transition and of every immediate
\* chained after it, each family starting from the result of the one before
RECURSIVE ChainFold(_, _, _)
ChainFold(steps, ctx, event) ==
    IF steps = <<>> THEN ctx
    ELSE ChainFold(Tail(steps),
                   ReducersOnly(Head(steps).via.reducers, ctx, event), event)

\* C16: context updates accumulate along an immediate chain: the family of
\* a chained immediate is folded starting from the candidate next context
\* of the transition or immediate before it, so the installed context is
\* the fold of the transition's reducers followed by the reducers of every
\* chained immediate, starting from the context held when send was called.
C16_ContextAccumulates ==
    Accepted =>
        /\ \A k \in 2..Len(applied) : applied[k].from = applied[k - 1].to
        /\ serviceContext(Service)
              = ChainFold(applied, last.before.context, last.event)


\* The immediates of a state whose guards all pass against a context
EligibleImmediates(st, ctx) ==
    {i \in 1..Len(st.immediates) : GuardsPass(st.immediates[i], ctx)}

\* C17: on entering a plain State the immediate that fires is the first,
\* in declaration order, whose guards all pass against the candidate next
\* context: the context that results from the reducers of the transition
\* (or immediate) that enters the state, not the context held before the
\* send; an immediate without guards is always eligible; when none is
\* eligible the state entered becomes the current state.
C17_ImmediateSelection ==
    Sent =>
        \A k \in 1..Len(applied) :
            LET target == applied[k].via.state
                candidate == applied[k].to
            IN  /\ k = 1 => candidate =
                      ReducersOnly(FirstEligible.reducers,
                                   last.before.context, last.event)
                /\ (Known(target) /\ ~IsInvoke(StateNamed(target))) =>
                      LET eligible ==
                              EligibleImmediates(StateNamed(target), candidate)
                      IN  IF k < Len(applied)
                          THEN /\ eligible # {}
                               /\ applied[k + 1].via =
                                     StateNamed(target).immediates[
                                        CHOOSE i \in eligible :
                                            \A j \in eligible : i <= j]
                          ELSE thrown = "" =>
                                 /\ eligible = {}
                                 /\ machineOf(Service).state = StateNamed(target)

\* A send entered state c with a candidate context that lets through a
\* guard the context held before the send does not pass, after an
\* immediate declared earlier was not eligible; and the chain ended in a
\* state none of whose immediates was eligible
C17_Witness ==
    /\ Accepted
    /\ Len(applied) >= 2
    /\ ~IsInvoke(StateNamed(applied[1].via.state))
    /\ applied[2].via # StateNamed(applied[1].via.state).immediates[1]
    /\ applied[2].via.guards # <<>>
    /\ GuardsPass(applied[2].via, applied[1].to)
    /\ ~GuardsPass(applied[2].via, last.before.context)
    /\ EligibleImmediates(machineOf(Service).state,
                          applied[Len(applied)].to) = {}

\* The action calls made by the last call
NewActionCalls ==
    SubSeq(actionCalls, last.before.actionCalls + 1, Len(actionCalls))

\* C18: every reducer and every action run during one send, those of
\* chained immediates included, receives the event that was passed to
\* send, and the subscribers are notified with that same event.
C18_EventPassedThrough ==
    Sent =>
        /\ \A a \in 1..Len(NewActionCalls) :
              NewActionCalls[a].event = last.event
        /\ \A k \in 1..Len(applied) :
              applied[k].to = ReducersOnly(applied[k].via.reducers,
                                           applied[k].from, last.event)
        /\ \A c \in 1..Len(NewCalls) : NewCalls[c].event = last.event

C18_Witness ==
    /\ Accepted
    /\ Len(applied) >= 2
    /\ applied[Len(applied)].actionCalls > applied[1].actionCalls
    /\ NewActionCalls # <<>>
    /\ NewActionCalls[Len(NewActionCalls)].event = last.event
    /\ NewCalls # <<>>


(***************************************************************************)
(* Invoke calls, under Spec                                                *)
(***************************************************************************)
\* The snapshots installed so far whose current state is an Invoke
InvokeSnapshots == {i \in 1..Len(heap) : IsInvoke(heap[i].state)}

\* C20: each time an Invoke becomes the current state exactly one call of
\* its function is started: the calls started are as many as the installed
\* snapshots whose current state is an Invoke (the initial one and one for
\* every accepted send that ends in an Invoke, re-entry included); a
\* discarded event or a send that ends in a plain State starts none; and a
\* started call delivers its result to send once: the call that resolves
\* was pending and is settled afterwards.
C20_OneCallPerInvokeEntry ==
    /\ Len(invokes) = Cardinality(InvokeSnapshots)
    /\ Sent =>
          Len(invokes) = last.before.invokes
              + (IF Accepted /\ IsInvoke(machineOf(Service).state)
                 THEN 1 ELSE 0)
    /\ Accepted /\ IsInvoke(machineOf(Service).state) =>
          invokes[Len(invokes)] =
              InvokeCall(machineOf(Service).state, serviceContext(Service))
    /\ last.op = "resolve" =>
          /\ last.call \in last.before.pending
          /\ invokes[last.call].settled
          /\ Pending(Service) \cap (1..last.before.invokes)
                = last.before.pending \ {last.call}

\* The Invoke was re-entered while it was current, a second call was
\* started and the first one has delivered its result
C20_Witness ==
    /\ Len(invokes) >= 2
    /\ invokes[1].state = invokes[2].state
    /\ Cardinality(InvokeSnapshots) >= 2
    /\ invokes[1].settled
    /\ last.op = "resolve"
    /\ last.call = 1


(***************************************************************************)
(* Subscribers that call send, under SpecReentrant                         *)
(***************************************************************************)
\* The machine references a subscriber function was called with, in order
RECURSIVE SeenBy(_, _)
SeenBy(fn, log) ==
    IF log = <<>> THEN <<>>
    ELSE (IF Head(log).subscriber = fn THEN <<Head(log).machine>> ELSE <<>>)
         \o SeenBy(fn, Tail(log))

\* C19: subscribers see consistent snapshots in send order, also when a
\* subscriber calls send on the service during a notification round: every
\* subscriber call receives the snapshot that was produced by applying the
\* event it receives (the calls for the event of the last send carry the
\* snapshot that send installed, and no snapshot is ever paired with two
\* different events), and each subscriber receives the pairs in the order
\* in which the sends were accepted.
C19_ConsistentSnapshotsInSendOrder ==
    /\ Accepted =>
          \A c \in 1..Len(NewCalls) :
              NewCalls[c].event = last.event
                  => NewCalls[c].machine = last.before.heap + 1
    /\ \A k, l \in 1..Len(calls) :
          calls[k].machine = calls[l].machine
              => calls[k].event = calls[l].event
    /\ \A i \in 1..Len(subscribers) :
          LET seen == SeenBy(subscribers[i], calls)
          IN  \A k \in 1..(Len(seen) - 1) : seen[k] < seen[k + 1]


(***************************************************************************)
(* States without outgoing transitions, under SpecTerminal                 *)
(***************************************************************************)
\* The current state has no outgoing transition
Terminal == machineOf(Service).state.transitions = <<>>

\* C21: once the current state has no outgoing transitions the held
\* snapshot never changes again and no subscriber (and no action or invoke
\* function) is called again, whatever events are sent and whatever results
\* of pending invoke calls are delivered, and no call fails.
C21_TerminalStateIsFinal ==
    [][Terminal =>
          /\ heap' = heap
          /\ serviceMachine' = serviceMachine
          /\ calls' = calls
          /\ actionCalls' = actionCalls
          /\ Len(invokes') = Len(invokes)
          /\ thrown' = ""]_vars

\* The result of a pending invoke call was delivered, and an event was
\* sent before it, while the plain State halted was current and a
\* subscriber was listening
C21_Witness ==
    /\ Terminal
    /\ ~IsInvoke(machineOf(Service).state)
    /\ last.op = "resolve"
    /\ last.before.state.transitions = <<>>
    /\ last.before.heap = Len(heap)
    /\ subscribers # <<>>
    /\ subscribedAt[1] = 1


(***************************************************************************)
(* Cycles of immediates, under Spec                                        *)
(***************************************************************************)
\* The state the last application of the last send entered
Reached == StateNamed(applied[Len(applied)].via.state)

\* The chain of the last send came back to an immediate it had entered:
\* the state reached by the last application has an eligible immediate
\* and the first eligible one was applied earlier in the same send
Cycles ==
    /\ applied # <<>>
    /\ Known(applied[Len(applied)].via.state)
    /\ ~IsInvoke(Reached)
    /\ LET eligible ==
               EligibleImmediates(Reached, applied[Len(applied)].to)
       IN  /\ eligible # {}
           /\ \E k \in 2..Len(applied) :
                 applied[k].via =
                    Reached.immediates[CHOOSE i \in eligible :
                                          \A j \in eligible : i <= j]

\* C22: immediate chaining has no cycle detection: a send completes
\* normally only when the chain of eligible immediates from the
\* transition's target reaches an Invoke or a state with no eligible
\* immediate; when the eligible immediates form a cycle the send does not
\* complete normally (the recursion ends in the engine's RangeError), no
\* snapshot is installed, no subscriber is notified and no invoke call is
\* started.
C22_NoCycleDetection ==
    Sent =>
        /\ Cycles <=> thrown = "RangeError"
        /\ thrown = "RangeError" =>
              /\ SnapshotKept
              /\ NewCalls = <<>>
              /\ Len(invokes) = last.before.invokes
        /\ Accepted =>
              /\ thrown = ""
              /\ \/ IsInvoke(Reached)
                 \/ EligibleImmediates(Reached,
                                       applied[Len(applied)].to) = {}
              /\ machineOf(Service).state = Reached

\* A send entered the cycle of immediates between h and i with a
\* subscriber listening
C22_Witness ==
    /\ Sent
    /\ Cycles
    /\ thrown = "RangeError"
    /\ Len(applied) = 3
    /\ applied[2].via.state = applied[1].via.state
          \/ applied[3].via.state = applied[1].via.state
    /\ subscribers # <<>>
    /\ SnapshotKept


(***************************************************************************)
(* Snapshots at rest, under Spec                                           *)
(***************************************************************************)
\* C23: after every accepted send the installed snapshot is at rest: its
\* current state is an Invoke, or a plain State none of whose immediates
\* has all its guards passing against the installed context value.  (The
\* snapshot interpret installs is not covered.)
C23_InstalledSnapshotAtRest ==
    Accepted =>
        \/ machineOf(Service).state.proto = invokeProto
        \/ \A i \in 1..Len(machineOf(Service).state.immediates) :
              \E g \in 1..Len(machineOf(Service).state.immediates[i].guards) :
                  ~GuardFn(machineOf(Service).state.immediates[i].guards[g].fn,
                           heap[serviceMachine].context[1].value)

\* An accepted send ended, after a chain of immediates or directly, in a
\* plain State that has an immediate whose guard fails against the
\* installed context
C23_Witness ==
    /\ Accepted
    /\ machineOf(Service).state.proto = stateProto
    /\ machineOf(Service).state.immediates # <<>>
    /\ \A i \in 1..Len(machineOf(Service).state.immediates) :
          ~GuardsPass(machineOf(Service).state.immediates[i],
                      serviceContext(Service))

(***************************************************************************)
(* The counter machine between sends, under SpecCounter                    *)
(***************************************************************************)
\* C24: for the counter machine, after any sequence of inc, dec and reset
\* events from the initial snapshot, the context is between 0 and 5, the
\* current state is never maxedOut, and the current state is idle only
\* when the context is 0.
C24_CounterInvariants ==
    /\ serviceContext(Service) \in 0..5
    /\ machineOf(Service).state.name # "maxedOut"
    /\ machineOf(Service).state.name \in {"idle", "counting"}
    /\ machineOf(Service).state.name = "idle" => serviceContext(Service) = 0

\* The counter was at 5 in state counting and the next inc passed through
\* maxedOut to idle with context 0
C24_Witness ==
    /\ Accepted
    /\ last.event = [type |-> "inc"]
    /\ last.before.state.name = "counting"
    /\ last.before.context = 5
    /\ machineOf(Service).state.name = "idle"
    /\ serviceContext(Service) = 0

====
